---- MODULE Spec2Model ----
(***************************************************************************)
(* Model of the keyring Provider of omnivault-keyring: a vault.Vault over  *)
(* an OS credential store (zkeyring.Get/Set/Delete keyed by service and    *)
(* key), with a JSON index of the stored keys kept under a reserved key.   *)
(*                                                                         *)
(* Go strings are modelled by their structure:                             *)
(*   - a path, a prefix and an index element is a sequence of characters   *)
(*     (<<>> is the empty string), so that strings.HasPrefix is computed;  *)
(*   - a stored text or a secret value is a record naming the JSON shape   *)
(*     of the text: a text that is no JSON document (Str), the literal     *)
(*     null (JNull), a JSON array of strings (IndexText) or a JSON object  *)
(*     with the keys of vault.Secret (SecretText).                         *)
(* Every exported operation holds the Provider lock from its first to its  *)
(* last statement.  The specifications of calls made one after the other   *)
(* take an operation as one atomic action; SpecLocked takes the calls of   *)
(* concurrent goroutines apart into lock, native calls and unlock.         *)
(***************************************************************************)
EXTENDS Integers, Sequences, FiniteSets, TLC

VARIABLES
    cfg,      \* Provider -> Config, as left by New
    closed,   \* Provider -> BOOLEAN, the closed flag
    store,    \* service -> key -> text or NotFound: the OS credential store
    last,     \* the call that was made last: its arguments, its native
              \* calls, its OnIndexError notifications and what it returned
    mu,       \* Provider -> the state of its sync.RWMutex
    th        \* goroutine -> the call it is in and how far it has got

vars == <<cfg, closed, store, last, mu, th>>

--------------------------------------------------------------------------
(* Constants of the program *)

DefaultServiceName == "omnivault"

indexKey == <<"__omnivault_index__">>

\* Provider.Name()
Name == "keyring"

--------------------------------------------------------------------------
(* Bounds and the inputs callers supply *)

\* plain texts are Str(0) (the empty string) and Str(1) .. Str(MaxAtom)
MaxAtom == 1

\* the number of goroutines calling concurrently
NumThreads == 2

OrdinaryPaths == {<<"a">>, <<"a", "b">>}

CallerPaths == OrdinaryPaths \cup {indexKey}

Prefixes == {<<>>, <<"a">>, <<"a", "b">>, <<"b">>, indexKey}

ServiceNames == {DefaultServiceName, "other"}

\* the entry of a key the store does not hold
NotFound == [k |-> "absent"]

\* a text that is not a JSON document (0: the empty string)
Str(i) == [k |-> "str", a |-> i]

\* the text null
JNull == [k |-> "null"]

\* the text of a JSON array of strings: json.Marshal of a []string
IndexText(keys) == [k |-> "arr", keys |-> keys]

\* the text of a JSON object with the keys of vault.Secret; a key whose
\* payload is empty is absent from the text (omitempty). bad: the object
\* has its "value" of the wrong JSON type (a number).
SecretText(bad, value, fields, provider, path) ==
    [k |-> "obj", bad |-> bad, value |-> value, fields |-> fields,
     provider |-> provider, path |-> path]

NoFields == {}

SomeFields == {<<"username", "admin">>}

\* vault.Secret{Value, Fields, Metadata{Provider, Path}}
MkSecret(value, fields, provider, path) ==
    [Value |-> value, Fields |-> fields,
     Metadata |-> [Provider |-> provider, Path |-> path]]

\* a nil *vault.Secret
NilSecret == [nil |-> TRUE]

PlainValues == {Str(i) : i \in 0..MaxAtom}

\* values that are themselves JSON documents: an array naming the reserved
\* key, and the text of a structured secret
JsonValues ==
    {IndexText(<<indexKey>>),
     SecretText(FALSE, Str(1), SomeFields, "", <<>>)}

CallerValues == PlainValues \cup JsonValues

\* the secrets callers pass to Set: every value without fields, and one
\* with fields and caller-supplied Metadata
CallerSecrets ==
    {MkSecret(v, NoFields, "", <<>>) : v \in CallerValues}
    \cup {MkSecret(Str(1), SomeFields, "evil", <<"a", "b">>)}

\* the secrets that matter to the index: a plain value, and a value that
\* decodes as an index when it is written under the reserved key
IndexSecrets ==
    {MkSecret(Str(1), NoFields, "", <<>>),
     MkSecret(IndexText(<<indexKey>>), NoFields, "", <<>>)}

\* the texts a plain-mode Provider is given to store for a structured-mode
\* Provider to read: the values above, the text null and an object whose
\* "value" is a number
MixedValues ==
    CallerValues
    \cup {JNull, SecretText(TRUE, Str(0), SomeFields, "", <<>>)}

MixedSecrets == {MkSecret(v, NoFields, "", <<>>) : v \in MixedValues}

MixedPaths == {<<"a">>, indexKey}

--------------------------------------------------------------------------
(* Errors *)

\* vault.NewVaultError(op, path, provider, err)
NewVaultError(op, path, provider, err) ==
    [Op |-> op, Path |-> path, Provider |-> provider, Err |-> err]

\* a nil error
NoErr == [Op |-> "", Path |-> <<>>, Provider |-> "", Err |-> "nil"]

\* errors.Is(err, target) on a VaultError: it wraps Err
ErrorsIs(err, target) == err.Err = target

--------------------------------------------------------------------------
(* The native store: zkeyring.Get / Set / Delete.  An environment env is   *)
(* the store together with the native calls and the notifications that the *)
(* running operation has made so far.  fail: the call fails with an error  *)
(* other than ErrNotFound and changes nothing.                             *)

Env(st) == [store |-> st, calls |-> <<>>, notes |-> <<>>]

Call(fn, service, key, res) ==
    [fn |-> fn, service |-> service, key |-> key, res |-> res]

zkeyringGet(env, service, key, fail) ==
    LET res == IF fail THEN "err"
               ELSE IF env.store[service][key] = NotFound THEN "notfound"
               ELSE "ok"
    IN  [res |-> res,
         value |-> IF res = "ok" THEN env.store[service][key] ELSE Str(0),
         env |-> [env EXCEPT !.calls = Append(@, Call("Get", service, key, res))]]

\* a write that keeps the text of an entry that exists
zkeyringSet_KeepExisting(env, service, key, value, fail) ==
    LET res == IF fail THEN "err" ELSE "ok"
    IN  [res |-> res,
         env |-> [env EXCEPT
                    !.calls = Append(@, Call("Set", service, key, res)),
                    !.store = IF fail \/ @[service][key] # NotFound THEN @
                              ELSE [@ EXCEPT ![service][key] = value]]]

zkeyringSet(env, service, key, value, fail) ==
    LET res == IF fail THEN "err" ELSE "ok"
    IN  [res |-> res,
         env |-> [env EXCEPT
                    !.calls = Append(@, Call("Set", service, key, res)),
                    !.store = IF fail THEN @
                              ELSE [@ EXCEPT ![service][key] = value]]]

zkeyringDelete(env, service, key, fail) ==
    LET res == IF fail THEN "err"
               ELSE IF env.store[service][key] = NotFound THEN "notfound"
               ELSE "ok"
    IN  [res |-> res,
         env |-> [env EXCEPT
                    !.calls = Append(@, Call("Delete", service, key, res)),
                    !.store = IF res = "ok"
                              THEN [@ EXCEPT ![service][key] = NotFound]
                              ELSE @]]

--------------------------------------------------------------------------
(* encoding/json on vault.Secret and on []string *)

\* a Marshal that leaves the fields out
Marshal_DropFields(secret) ==
    SecretText(FALSE, secret.Value, NoFields,
               secret.Metadata.Provider, secret.Metadata.Path)

\* json.Marshal(secret): value, fields, provider and path are omitempty, so
\* an empty one leaves no key in the text
Marshal(secret) ==
    SecretText(FALSE, secret.Value, secret.Fields,
               secret.Metadata.Provider, secret.Metadata.Path)

\* a secret json.Marshal returns an error for: its Metadata carries, under
\* Extra, a value of a type encoding/json does not support
Unencodable(secret) ==
    [secret EXCEPT !.Metadata = [Provider |-> @.Provider, Path |-> @.Path,
                                 Extra |-> "func"]]

\* whether json.Marshal(secret) returns an error
MarshalFails(secret) == "Extra" \in DOMAIN secret.Metadata

\* secret.String(): the primary value
SecretString(secret) == secret.Value

\* json.Unmarshal([]byte(text), secret): the keys present in the text are
\* stored over what secret holds, the others are left as they are.  A text
\* that is no JSON document, or a JSON document other than an object or
\* null, is an error and stores nothing; null stores nothing and is no
\* error; an object with an ill-typed "value" is an error after its other
\* keys have been stored.
Unmarshal(text, secret) ==
    IF text.k = "obj" THEN
        [err |-> text.bad,
         secret |->
            [Value |-> IF ~text.bad /\ text.value # Str(0)
                       THEN text.value ELSE secret.Value,
             Fields |-> IF text.fields # NoFields
                        THEN text.fields ELSE secret.Fields,
             Metadata |->
                [Provider |-> IF text.provider # ""
                              THEN text.provider ELSE secret.Metadata.Provider,
                 Path |-> IF text.path # <<>>
                          THEN text.path ELSE secret.Metadata.Path]]]
    ELSE IF text.k = "null" THEN [err |-> FALSE, secret |-> secret]
    ELSE [err |-> TRUE, secret |-> secret]

\* json.Unmarshal([]byte(text), &index) for index []string: an array of
\* strings is decoded, null leaves the nil slice, anything else is an error
UnmarshalIndex(text) ==
    IF text.k = "arr" THEN [err |-> FALSE, index |-> text.keys]
    ELSE IF text.k = "null" THEN [err |-> FALSE, index |-> <<>>]
    ELSE [err |-> TRUE, index |-> <<>>]

\* strings.HasPrefix(s, prefix)
HasPrefix(s, prefix) ==
    Len(prefix) <= Len(s) /\ SubSeq(s, 1, Len(prefix)) = prefix

Contains(seq, key) == \E i \in 1..Len(seq) : seq[i] = key

--------------------------------------------------------------------------
(* The index: loadIndex, saveIndex, reportIndexError, addToIndex,          *)
(* removeFromIndex.  c is the Provider's config.                           *)

\* outcomes of the native calls of one operation: primary is the call on
\* the path, idxGet and idxSet the read and the write of the index entry
Fails == [primary : BOOLEAN, idxGet : BOOLEAN, idxSet : BOOLEAN]

NoFail == [primary |-> FALSE, idxGet |-> FALSE, idxSet |-> FALSE]

\* Get and Exists make the primary call only, List the index read only; Set
\* and Delete reach the index calls only when the primary call succeeded
ReadFails == {f \in Fails : ~f.idxGet /\ ~f.idxSet}

ListFails == {f \in Fails : ~f.primary /\ ~f.idxSet}

WriteFails == {f \in Fails : f.primary => (~f.idxGet /\ ~f.idxSet)}

reportIndexError(c, env, op) ==
    IF c.OnIndexError THEN [env EXCEPT !.notes = Append(@, op)] ELSE env

\* a loadIndex that reports an absent index entry too, and every failure
\* with the tag "load"
loadIndex_OneTag(c, env, f) ==
    LET g == zkeyringGet(env, c.ServiceName, indexKey, f.idxGet)
        u == UnmarshalIndex(g.value)
    IN  IF g.res # "ok" \/ u.err THEN
            [index |-> <<>>, env |-> reportIndexError(c, g.env, "load")]
        ELSE [index |-> u.index, env |-> g.env]

\* a loadIndex that reads the index entry a second time when the read failed
loadIndex_Retry(c, env, f) ==
    LET g1 == zkeyringGet(env, c.ServiceName, indexKey, f.idxGet)
        g == IF g1.res = "err"
             THEN zkeyringGet(g1.env, c.ServiceName, indexKey, f.idxGet)
             ELSE g1
        u == UnmarshalIndex(g.value)
    IN  IF g.res # "ok" THEN
            [index |-> <<>>,
             env |-> IF g.res # "notfound"
                     THEN reportIndexError(c, g.env, "load") ELSE g.env]
        ELSE IF u.err THEN
            [index |-> <<>>, env |-> reportIndexError(c, g.env, "unmarshal")]
        ELSE [index |-> u.index, env |-> g.env]

\* a loadIndex that reads the index of the default service
loadIndex_DefaultService(c, env, f) ==
    LET g == zkeyringGet(env, DefaultServiceName, indexKey, f.idxGet)
        u == UnmarshalIndex(g.value)
    IN  IF g.res # "ok" THEN
            [index |-> <<>>,
             env |-> IF g.res # "notfound"
                     THEN reportIndexError(c, g.env, "load") ELSE g.env]
        ELSE IF u.err THEN
            [index |-> <<>>, env |-> reportIndexError(c, g.env, "unmarshal")]
        ELSE [index |-> u.index, env |-> g.env]

loadIndex(c, env, f) ==
    LET g == zkeyringGet(env, c.ServiceName, indexKey, f.idxGet)
        u == UnmarshalIndex(g.value)
    IN  IF g.res # "ok" THEN
            [index |-> <<>>,
             env |-> IF g.res # "notfound"
                     THEN reportIndexError(c, g.env, "load") ELSE g.env]
        ELSE IF u.err THEN
            [index |-> <<>>, env |-> reportIndexError(c, g.env, "unmarshal")]
        ELSE [index |-> u.index, env |-> g.env]

\* a saveIndex that does not report a failed write
saveIndex_Silent(c, env, index, f) ==
    zkeyringSet(env, c.ServiceName, indexKey, IndexText(index), f.idxSet).env

saveIndex(c, env, index, f) ==
    LET s == zkeyringSet(env, c.ServiceName, indexKey, IndexText(index), f.idxSet)
    IN  IF s.res # "ok" THEN reportIndexError(c, s.env, "save") ELSE s.env

\* an addToIndex that looks for the key without regard to case
addToIndex_FoldCase(c, env, key, f) ==
    LET l == loadIndex(c, env, f)
        Fold(k) == [i \in 1..Len(k) |-> IF k[i] = "A" THEN "a" ELSE k[i]]
    IN  IF \E i \in 1..Len(l.index) : Fold(l.index[i]) = Fold(key) THEN l.env
        ELSE saveIndex(c, l.env, Append(l.index, key), f)

\* an addToIndex that appends without looking for the key
addToIndex_Append(c, env, key, f) ==
    LET l == loadIndex(c, env, f)
    IN  saveIndex(c, l.env, Append(l.index, key), f)

addToIndex(c, env, key, f) ==
    LET l == loadIndex(c, env, f)
    IN  IF Contains(l.index, key) THEN l.env
        ELSE saveIndex(c, l.env, Append(l.index, key), f)

\* a removeFromIndex that writes nothing when the key is not in the index
removeFromIndex_SkipAbsent(c, env, key, f) ==
    LET l == loadIndex(c, env, f)
        Keep(k) == k # key
    IN  IF Contains(l.index, key)
        THEN saveIndex(c, l.env, SelectSeq(l.index, Keep), f)
        ELSE l.env

\* a removeFromIndex that writes back what it loaded
removeFromIndex_KeepAll(c, env, key, f) ==
    LET l == loadIndex(c, env, f)
    IN  saveIndex(c, l.env, l.index, f)

removeFromIndex(c, env, key, f) ==
    LET l == loadIndex(c, env, f)
        Keep(k) == k # key
    IN  saveIndex(c, l.env, SelectSeq(l.index, Keep), f)

--------------------------------------------------------------------------
(* The Provider's methods.  c is p.config, isClosed is p.closed, st the    *)
(* store when the method takes the lock; the result is what the method     *)
(* returns, with the environment it leaves.                                *)

Ret(env, err, secret, found, list) ==
    [env |-> env, err |-> err, secret |-> secret, found |-> found, list |-> list]

\* New(config)
New(config) ==
    IF config.ServiceName = ""
    THEN [config EXCEPT !.ServiceName = DefaultServiceName]
    ELSE config

\* a Get without the fall back to the plain value
GetOpen_NoFallback(c, st, path, f) ==
    LET g == zkeyringGet(Env(st), c.ServiceName, path, f.primary)
        stamped == MkSecret(Str(0), NoFields, Name, path)
        secret == IF c.JSONFormat THEN Unmarshal(g.value, stamped).secret
                  ELSE [stamped EXCEPT !.Value = g.value]
    IN  IF g.res = "notfound" THEN
            Ret(g.env, NewVaultError("Get", path, Name, "ErrSecretNotFound"),
                NilSecret, FALSE, <<>>)
        ELSE IF g.res = "err" THEN
            Ret(g.env, NewVaultError("Get", path, Name, "ErrNative"),
                NilSecret, FALSE, <<>>)
        ELSE Ret(g.env, NoErr, secret, FALSE, <<>>)

\* Get once the closed flag is found unset
GetOpen(c, st, path, f) ==
    LET g == zkeyringGet(Env(st), c.ServiceName, path, f.primary)
        stamped == MkSecret(Str(0), NoFields, Name, path)
        u == Unmarshal(g.value, stamped)
        secret == IF c.JSONFormat
                  THEN IF u.err THEN [u.secret EXCEPT !.Value = g.value]
                       ELSE u.secret
                  ELSE [stamped EXCEPT !.Value = g.value]
    IN  IF g.res = "notfound" THEN
            Ret(g.env, NewVaultError("Get", path, Name, "ErrSecretNotFound"),
                NilSecret, FALSE, <<>>)
        ELSE IF g.res = "err" THEN
            Ret(g.env, NewVaultError("Get", path, Name, "ErrNative"),
                NilSecret, FALSE, <<>>)
        ELSE Ret(g.env, NoErr, secret, FALSE, <<>>)

\* a Get that does not look at the closed flag
DoGet_Unguarded(c, isClosed, st, path, f) == GetOpen(c, st, path, f)

DoGet(c, isClosed, st, path, f) ==
    IF isClosed THEN
        Ret(Env(st), NewVaultError("Get", path, Name, "ErrClosed"),
            NilSecret, FALSE, <<>>)
    ELSE GetOpen(c, st, path, f)

\* a Set that leaves the index alone
DoSet_Unindexed(c, isClosed, st, path, secret, f) ==
    LET value == IF c.JSONFormat THEN Marshal(secret) ELSE SecretString(secret)
        s == zkeyringSet(Env(st), c.ServiceName, path, value, f.primary)
    IN  IF isClosed THEN
            Ret(Env(st), NewVaultError("Set", path, Name, "ErrClosed"),
                NilSecret, FALSE, <<>>)
        ELSE IF c.JSONFormat /\ MarshalFails(secret) THEN
            Ret(Env(st), NewVaultError("Set", path, Name, "ErrMarshal"),
                NilSecret, FALSE, <<>>)
        ELSE IF s.res # "ok" THEN
            Ret(s.env, NewVaultError("Set", path, Name, "ErrNative"),
                NilSecret, FALSE, <<>>)
        ELSE Ret(s.env, NoErr, NilSecret, FALSE, <<>>)

\* a Set that returns nil when its native write failed
DoSet_SwallowFailure(c, isClosed, st, path, secret, f) ==
    LET value == IF c.JSONFormat THEN Marshal(secret) ELSE SecretString(secret)
        s == zkeyringSet(Env(st), c.ServiceName, path, value, f.primary)
    IN  IF isClosed THEN
            Ret(Env(st), NewVaultError("Set", path, Name, "ErrClosed"),
                NilSecret, FALSE, <<>>)
        ELSE IF c.JSONFormat /\ MarshalFails(secret) THEN
            Ret(Env(st), NewVaultError("Set", path, Name, "ErrMarshal"),
                NilSecret, FALSE, <<>>)
        ELSE IF s.res # "ok" THEN
            Ret(s.env, NoErr, NilSecret, FALSE, <<>>)
        ELSE Ret(IF path # indexKey THEN addToIndex(c, s.env, path, f) ELSE s.env,
                 NoErr, NilSecret, FALSE, <<>>)

\* a Set that returns an error when the index update reported one
DoSet_Strict(c, isClosed, st, path, secret, f) ==
    LET value == IF c.JSONFormat THEN Marshal(secret) ELSE SecretString(secret)
        s == zkeyringSet(Env(st), c.ServiceName, path, value, f.primary)
        a == IF path # indexKey THEN addToIndex(c, s.env, path, f) ELSE s.env
    IN  IF isClosed THEN
            Ret(Env(st), NewVaultError("Set", path, Name, "ErrClosed"),
                NilSecret, FALSE, <<>>)
        ELSE IF c.JSONFormat /\ MarshalFails(secret) THEN
            Ret(Env(st), NewVaultError("Set", path, Name, "ErrMarshal"),
                NilSecret, FALSE, <<>>)
        ELSE IF s.res # "ok" \/ a.notes # <<>> THEN
            Ret(a, NewVaultError("Set", path, Name, "ErrNative"),
                NilSecret, FALSE, <<>>)
        ELSE Ret(a, NoErr, NilSecret, FALSE, <<>>)

\* a Set that drops the error of json.Marshal and stores the empty text
DoSet_IgnoreEncodeError(c, isClosed, st, path, secret, f) ==
    LET value == IF c.JSONFormat
                 THEN IF MarshalFails(secret) THEN Str(0) ELSE Marshal(secret)
                 ELSE SecretString(secret)
        s == zkeyringSet(Env(st), c.ServiceName, path, value, f.primary)
    IN  IF isClosed THEN
            Ret(Env(st), NewVaultError("Set", path, Name, "ErrClosed"),
                NilSecret, FALSE, <<>>)
        ELSE IF s.res # "ok" THEN
            Ret(s.env, NewVaultError("Set", path, Name, "ErrNative"),
                NilSecret, FALSE, <<>>)
        ELSE Ret(IF path # indexKey THEN addToIndex(c, s.env, path, f) ELSE s.env,
                 NoErr, NilSecret, FALSE, <<>>)

DoSet(c, isClosed, st, path, secret, f) ==
    LET value == IF c.JSONFormat THEN Marshal(secret) ELSE SecretString(secret)
        s == zkeyringSet(Env(st), c.ServiceName, path, value, f.primary)
    IN  IF isClosed THEN
            Ret(Env(st), NewVaultError("Set", path, Name, "ErrClosed"),
                NilSecret, FALSE, <<>>)
        ELSE IF c.JSONFormat /\ MarshalFails(secret) THEN
            Ret(Env(st), NewVaultError("Set", path, Name, "ErrMarshal"),
                NilSecret, FALSE, <<>>)
        ELSE IF s.res # "ok" THEN
            Ret(s.env, NewVaultError("Set", path, Name, "ErrNative"),
                NilSecret, FALSE, <<>>)
        ELSE Ret(IF path # indexKey THEN addToIndex(c, s.env, path, f) ELSE s.env,
                 NoErr, NilSecret, FALSE, <<>>)

\* a Delete that updates the index also when its native delete failed
DoDelete_UnindexFirst(c, isClosed, st, path, f) ==
    LET d == zkeyringDelete(Env(st), c.ServiceName, path, f.primary)
        r == IF path # indexKey THEN removeFromIndex(c, d.env, path, f) ELSE d.env
    IN  IF isClosed THEN
            Ret(Env(st), NewVaultError("Delete", path, Name, "ErrClosed"),
                NilSecret, FALSE, <<>>)
        ELSE IF d.res = "notfound" THEN
            Ret(d.env, NoErr, NilSecret, FALSE, <<>>)
        ELSE IF d.res = "err" THEN
            Ret(r, NewVaultError("Delete", path, Name, "ErrNative"),
                NilSecret, FALSE, <<>>)
        ELSE Ret(r, NoErr, NilSecret, FALSE, <<>>)

\* a Delete that returns the not-found error
DoDelete_NotFoundIsError(c, isClosed, st, path, f) ==
    LET d == zkeyringDelete(Env(st), c.ServiceName, path, f.primary)
    IN  IF isClosed THEN
            Ret(Env(st), NewVaultError("Delete", path, Name, "ErrClosed"),
                NilSecret, FALSE, <<>>)
        ELSE IF d.res = "notfound" THEN
            Ret(d.env, NewVaultError("Delete", path, Name, "ErrSecretNotFound"),
                NilSecret, FALSE, <<>>)
        ELSE IF d.res = "err" THEN
            Ret(d.env, NewVaultError("Delete", path, Name, "ErrNative"),
                NilSecret, FALSE, <<>>)
        ELSE Ret(IF path # indexKey THEN removeFromIndex(c, d.env, path, f) ELSE d.env,
                 NoErr, NilSecret, FALSE, <<>>)

DoDelete(c, isClosed, st, path, f) ==
    LET d == zkeyringDelete(Env(st), c.ServiceName, path, f.primary)
    IN  IF isClosed THEN
            Ret(Env(st), NewVaultError("Delete", path, Name, "ErrClosed"),
                NilSecret, FALSE, <<>>)
        ELSE IF d.res = "notfound" THEN
            Ret(d.env, NoErr, NilSecret, FALSE, <<>>)
        ELSE IF d.res = "err" THEN
            Ret(d.env, NewVaultError("Delete", path, Name, "ErrNative"),
                NilSecret, FALSE, <<>>)
        ELSE Ret(IF path # indexKey THEN removeFromIndex(c, d.env, path, f) ELSE d.env,
                 NoErr, NilSecret, FALSE, <<>>)

\* an Exists that returns the not-found error as Get does
DoExists_NotFoundIsError(c, isClosed, st, path, f) ==
    LET g == zkeyringGet(Env(st), c.ServiceName, path, f.primary)
    IN  IF isClosed THEN
            Ret(Env(st), NewVaultError("Exists", path, Name, "ErrClosed"),
                NilSecret, FALSE, <<>>)
        ELSE IF g.res = "notfound" THEN
            Ret(g.env, NewVaultError("Exists", path, Name, "ErrSecretNotFound"),
                NilSecret, FALSE, <<>>)
        ELSE IF g.res = "err" THEN
            Ret(g.env, NewVaultError("Exists", path, Name, "ErrNative"),
                NilSecret, FALSE, <<>>)
        ELSE Ret(g.env, NoErr, NilSecret, TRUE, <<>>)

DoExists(c, isClosed, st, path, f) ==
    LET g == zkeyringGet(Env(st), c.ServiceName, path, f.primary)
    IN  IF isClosed THEN
            Ret(Env(st), NewVaultError("Exists", path, Name, "ErrClosed"),
                NilSecret, FALSE, <<>>)
        ELSE IF g.res = "notfound" THEN
            Ret(g.env, NoErr, NilSecret, FALSE, <<>>)
        ELSE IF g.res = "err" THEN
            Ret(g.env, NewVaultError("Exists", path, Name, "ErrNative"),
                NilSecret, FALSE, <<>>)
        ELSE Ret(g.env, NoErr, NilSecret, TRUE, <<>>)

\* a List that leaves out the keys whose entry the store does not hold
DoList_Reconciling(c, isClosed, st, prefix, f) ==
    LET l == loadIndex(c, Env(st), f)
        Match(key) == HasPrefix(key, prefix) /\ st[c.ServiceName][key] # NotFound
    IN  IF isClosed THEN
            Ret(Env(st), NewVaultError("List", prefix, Name, "ErrClosed"),
                NilSecret, FALSE, <<>>)
        ELSE Ret(l.env, NoErr, NilSecret, FALSE, SelectSeq(l.index, Match))

\* a List that writes back the index it loaded
DoList_Repairing(c, isClosed, st, prefix, f) ==
    LET l == loadIndex(c, Env(st), f)
        Match(key) == HasPrefix(key, prefix)
    IN  IF isClosed THEN
            Ret(Env(st), NewVaultError("List", prefix, Name, "ErrClosed"),
                NilSecret, FALSE, <<>>)
        ELSE Ret(saveIndex(c, l.env, l.index, f), NoErr, NilSecret, FALSE,
                 SelectSeq(l.index, Match))

\* a List that returns the whole index whatever the prefix
DoList_Unfiltered(c, isClosed, st, prefix, f) ==
    LET l == loadIndex(c, Env(st), f)
    IN  IF isClosed THEN
            Ret(Env(st), NewVaultError("List", prefix, Name, "ErrClosed"),
                NilSecret, FALSE, <<>>)
        ELSE Ret(l.env, NoErr, NilSecret, FALSE, l.index)

DoList(c, isClosed, st, prefix, f) ==
    LET l == loadIndex(c, Env(st), f)
        Match(key) == HasPrefix(key, prefix)
    IN  IF isClosed THEN
            Ret(Env(st), NewVaultError("List", prefix, Name, "ErrClosed"),
                NilSecret, FALSE, <<>>)
        ELSE Ret(l.env, NoErr, NilSecret, FALSE, SelectSeq(l.index, Match))

\* a Close that flips the flag
DoClose_Toggle(isClosed) == ~isClosed

\* Close: the value closed takes
DoClose(isClosed) == TRUE

--------------------------------------------------------------------------
(* The state machine *)

Providers == DOMAIN cfg

\* a sync.RWMutex nobody holds: no writer, no reader
Unlocked == [writer |-> 0, readers |-> {}]

\* the goroutines that call concurrently
Threads == 1..NumThreads

\* a goroutine that is in no call
Idle ==
    [pc |-> "idle", prov |-> 0, op |-> "", path |-> <<>>, arg |-> NilSecret,
     index |-> <<>>, err |-> NoErr, secret |-> NilSecret, found |-> FALSE,
     list |-> <<>>, resume |-> ""]

Last(p, op, path, arg, r) ==
    [prov |-> p, op |-> op, path |-> path, arg |-> arg,
     err |-> r.err, secret |-> r.secret, found |-> r.found, list |-> r.list,
     calls |-> r.env.calls, notes |-> r.env.notes]

Configs ==
    [ServiceName : {""}, JSONFormat : BOOLEAN, OnIndexError : BOOLEAN]

EmptyStore == [s \in ServiceNames |-> [key \in CallerPaths |-> NotFound]]

InitWith(configs) ==
    /\ cfg \in configs
    /\ closed = [p \in DOMAIN cfg |-> FALSE]
    /\ store = EmptyStore
    /\ last = Last(0, "New", <<>>, NilSecret,
                   Ret(Env(store), NoErr, NilSecret, FALSE, <<>>))
    /\ mu = [p \in DOMAIN cfg |-> Unlocked]
    /\ th = [t \in Threads |-> Idle]

\* one Provider, of any configuration, on an empty store
Init == InitWith({[p \in {1} |-> New(config)] : config \in Configs})

\* one Provider of either format, with a callback, on an empty store
InitCodec ==
    InitWith({[p \in {1} |-> New(config)] :
                 config \in {c \in Configs : c.OnIndexError}})

Get(p, path, f) ==
    LET r == DoGet(cfg[p], closed[p], store, path, f)
    IN  /\ store' = r.env.store
        /\ last' = Last(p, "Get", path, NilSecret, r)
        /\ UNCHANGED <<cfg, closed, mu, th>>

Set(p, path, secret, f) ==
    LET r == DoSet(cfg[p], closed[p], store, path, secret, f)
    IN  /\ store' = r.env.store
        /\ last' = Last(p, "Set", path, secret, r)
        /\ UNCHANGED <<cfg, closed, mu, th>>

Delete(p, path, f) ==
    LET r == DoDelete(cfg[p], closed[p], store, path, f)
    IN  /\ store' = r.env.store
        /\ last' = Last(p, "Delete", path, NilSecret, r)
        /\ UNCHANGED <<cfg, closed, mu, th>>

Exists(p, path, f) ==
    LET r == DoExists(cfg[p], closed[p], store, path, f)
    IN  /\ store' = r.env.store
        /\ last' = Last(p, "Exists", path, NilSecret, r)
        /\ UNCHANGED <<cfg, closed, mu, th>>

List(p, prefix, f) ==
    LET r == DoList(cfg[p], closed[p], store, prefix, f)
    IN  /\ store' = r.env.store
        /\ last' = Last(p, "List", prefix, NilSecret, r)
        /\ UNCHANGED <<cfg, closed, mu, th>>

Close(p) ==
    /\ closed' = [closed EXCEPT ![p] = DoClose(closed[p])]
    /\ last' = Last(p, "Close", <<>>, NilSecret,
                    Ret(Env(store), NoErr, NilSecret, FALSE, <<>>))
    /\ UNCHANGED <<cfg, store, mu, th>>

\* the operations callers make: every path, the secrets that matter to the
\* index, native calls that may fail
Next ==
    \/ \E p \in Providers, path \in CallerPaths, f \in ReadFails : Get(p, path, f)
    \/ \E p \in Providers, path \in CallerPaths, secret \in IndexSecrets,
          f \in WriteFails : Set(p, path, secret, f)
    \/ \E p \in Providers, path \in CallerPaths, f \in WriteFails : Delete(p, path, f)
    \/ \E p \in Providers, path \in CallerPaths, f \in ReadFails : Exists(p, path, f)
    \/ \E p \in Providers, prefix \in Prefixes, f \in ListFails : List(p, prefix, f)
    \/ \E p \in Providers : Close(p)

Spec == Init /\ [][Next]_vars

\* every path and every secret, on a native store that does not fail
NextCodec ==
    \/ \E p \in Providers, path \in CallerPaths : Get(p, path, NoFail)
    \/ \E p \in Providers, path \in CallerPaths, secret \in CallerSecrets :
          Set(p, path, secret, NoFail)
    \/ \E p \in Providers, path \in CallerPaths : Delete(p, path, NoFail)
    \/ \E p \in Providers, path \in CallerPaths : Exists(p, path, NoFail)
    \/ \E p \in Providers, prefix \in Prefixes : List(p, prefix, NoFail)
    \/ \E p \in Providers : Close(p)

SpecCodec == InitCodec /\ [][NextCodec]_vars

\* a plain-mode and a structured-mode Provider of one service
InitMixed ==
    InitWith({[p \in {1, 2} |->
                 New([ServiceName |-> "", JSONFormat |-> (p = 2),
                      OnIndexError |-> TRUE])]})

\* the plain-mode Providers write, every Provider reads and deletes, at one
\* ordinary path and at the reserved key, on a native store that does not
\* fail
NextMixed ==
    \/ \E p \in Providers, path \in MixedPaths : Get(p, path, NoFail)
    \/ \E p \in Providers, path \in MixedPaths, secret \in MixedSecrets :
          ~cfg[p].JSONFormat /\ Set(p, path, secret, NoFail)
    \/ \E p \in Providers, path \in MixedPaths : Delete(p, path, NoFail)
    \/ \E p \in Providers, path \in MixedPaths : Exists(p, path, NoFail)
    \/ \E p \in Providers, prefix \in Prefixes : List(p, prefix, NoFail)
    \/ \E p \in Providers : Close(p)

SpecMixed == InitMixed /\ [][NextMixed]_vars

\* the secret the callers of the index specifications store
OneSecret == MkSecret(Str(1), NoFields, "", <<>>)

\* the ordinary paths only, native calls that may fail
NextOrdinary ==
    \/ \E p \in Providers, path \in OrdinaryPaths, f \in ReadFails : Get(p, path, f)
    \/ \E p \in Providers, path \in OrdinaryPaths, f \in WriteFails :
          Set(p, path, OneSecret, f)
    \/ \E p \in Providers, path \in OrdinaryPaths, f \in WriteFails :
          Delete(p, path, f)
    \/ \E p \in Providers, path \in OrdinaryPaths, f \in ReadFails :
          Exists(p, path, f)
    \/ \E p \in Providers, prefix \in Prefixes, f \in ListFails : List(p, prefix, f)
    \/ \E p \in Providers : Close(p)

\* one Provider on an empty store, called with ordinary paths only
SpecOrdinary == Init /\ [][NextOrdinary]_vars

\* indexes an earlier run or another writer of the service left behind:
\* none, one without and one with a repeated key
LeftIndexes == {NotFound, IndexText(<<<<"a", "b">>, <<"a">>>>),
                IndexText(<<<<"a", "b">>, <<"a">>, <<"a", "b">>>>)}

\* one Provider on a store that holds nothing but a left-behind index
InitList ==
    /\ cfg \in {[p \in {1} |-> New(config)] : config \in Configs}
    /\ closed = [p \in DOMAIN cfg |-> FALSE]
    /\ \E text \in LeftIndexes :
          store = [EmptyStore EXCEPT ![DefaultServiceName][indexKey] = text]
    /\ last = Last(0, "New", <<>>, NilSecret,
                   Ret(Env(store), NoErr, NilSecret, FALSE, <<>>))
    /\ mu = [p \in DOMAIN cfg |-> Unlocked]
    /\ th = [t \in Threads |-> Idle]

SpecList == InitList /\ [][NextOrdinary]_vars

\* the ordinary paths only, on a native store that does not fail
NextClean ==
    \/ \E p \in Providers, path \in OrdinaryPaths : Get(p, path, NoFail)
    \/ \E p \in Providers, path \in OrdinaryPaths, secret \in CallerSecrets :
          Set(p, path, secret, NoFail)
    \/ \E p \in Providers, path \in OrdinaryPaths : Delete(p, path, NoFail)
    \/ \E p \in Providers, path \in OrdinaryPaths : Exists(p, path, NoFail)
    \/ \E p \in Providers, prefix \in Prefixes : List(p, prefix, NoFail)
    \/ \E p \in Providers : Close(p)

\* one Provider alone on its service, called with ordinary paths only
SpecClean == Init /\ [][NextClean]_vars

\* two paths that differ in case only
CasePaths == {<<"a">>, <<"A">>}

\* one Provider, of any configuration, on an empty store
InitCase ==
    /\ cfg \in {[p \in {1} |-> New(config)] : config \in Configs}
    /\ closed = [p \in DOMAIN cfg |-> FALSE]
    /\ store = [s \in ServiceNames |->
                  [key \in CasePaths \cup {indexKey} |-> NotFound]]
    /\ last = Last(0, "New", <<>>, NilSecret,
                   Ret(Env(store), NoErr, NilSecret, FALSE, <<>>))
    /\ mu = [p \in DOMAIN cfg |-> Unlocked]
    /\ th = [t \in Threads |-> Idle]

\* the paths that differ in case only, native calls that may fail
NextCase ==
    \/ \E p \in Providers, path \in CasePaths, f \in ReadFails : Get(p, path, f)
    \/ \E p \in Providers, path \in CasePaths, f \in WriteFails :
          Set(p, path, OneSecret, f)
    \/ \E p \in Providers, path \in CasePaths, f \in WriteFails :
          Delete(p, path, f)
    \/ \E p \in Providers, path \in CasePaths, f \in ReadFails :
          Exists(p, path, f)
    \/ \E p \in Providers, prefix \in {<<>>, <<"a">>}, f \in ListFails :
          List(p, prefix, f)
    \/ \E p \in Providers : Close(p)

SpecCase == InitCase /\ [][NextCase]_vars

\* another process removes an entry of the service from the OS store
ExternalDelete(service, key) ==
    /\ store[service][key] # NotFound
    /\ store' = [store EXCEPT ![service][key] = NotFound]
    /\ last' = Last(0, "ExternalDelete", key, NilSecret,
                    Ret(Env(store'), NoErr, NilSecret, FALSE, <<>>))
    /\ UNCHANGED <<cfg, closed, mu, th>>

\* another process writes an entry of the service to the OS store
ExternalWrite(service, key, value) ==
    /\ store' = [store EXCEPT ![service][key] = value]
    /\ last' = Last(0, "ExternalWrite", key, NilSecret,
                    Ret(Env(store'), NoErr, NilSecret, FALSE, <<>>))
    /\ UNCHANGED <<cfg, closed, mu, th>>

\* the Provider called with ordinary paths, on a native store that does not
\* fail and in which another process removes and writes ordinary entries
NextExternal ==
    \/ \E p \in Providers, path \in OrdinaryPaths : Get(p, path, NoFail)
    \/ \E p \in Providers, path \in OrdinaryPaths : Set(p, path, OneSecret, NoFail)
    \/ \E p \in Providers, path \in OrdinaryPaths : Delete(p, path, NoFail)
    \/ \E p \in Providers, path \in OrdinaryPaths : Exists(p, path, NoFail)
    \/ \E p \in Providers, prefix \in Prefixes : List(p, prefix, NoFail)
    \/ \E p \in Providers : Close(p)
    \/ \E path \in OrdinaryPaths : ExternalDelete(DefaultServiceName, path)
    \/ \E path \in OrdinaryPaths :
          ExternalWrite(DefaultServiceName, path, Str(0))

\* one Provider on an empty store that another process uses too
SpecExternal == Init /\ [][NextExternal]_vars

\* a secret that encodes and one that does not
EncodeSecrets == {OneSecret, Unencodable(OneSecret)}

\* every path, a secret that encodes and one that does not, native calls
\* that may fail
NextEncode ==
    \/ \E p \in Providers, path \in CallerPaths, f \in ReadFails : Get(p, path, f)
    \/ \E p \in Providers, path \in CallerPaths, secret \in EncodeSecrets,
          f \in WriteFails : Set(p, path, secret, f)
    \/ \E p \in Providers, path \in CallerPaths, f \in WriteFails : Delete(p, path, f)
    \/ \E p \in Providers, path \in CallerPaths, f \in ReadFails : Exists(p, path, f)
    \/ \E p \in Providers, prefix \in Prefixes, f \in ListFails : List(p, prefix, f)
    \/ \E p \in Providers : Close(p)

\* one Provider of either format, with a callback, on an empty store
SpecEncode == InitCodec /\ [][NextEncode]_vars

\* two plain-mode Providers, one of the default service and one of another
InitServices ==
    InitWith({[p \in {1, 2} |->
                 New([ServiceName |-> IF p = 1 THEN "" ELSE "other",
                      JSONFormat |-> FALSE, OnIndexError |-> TRUE])]})

\* both Providers called at one ordinary path and at the reserved key,
\* native calls that may fail
NextServices ==
    \/ \E p \in Providers, path \in MixedPaths, f \in ReadFails : Get(p, path, f)
    \/ \E p \in Providers, path \in MixedPaths, f \in WriteFails :
          Set(p, path, OneSecret, f)
    \/ \E p \in Providers, path \in MixedPaths, f \in WriteFails :
          Delete(p, path, f)
    \/ \E p \in Providers, path \in MixedPaths, f \in ReadFails :
          Exists(p, path, f)
    \/ \E p \in Providers, prefix \in {<<>>, <<"a">>}, f \in ListFails :
          List(p, prefix, f)
    \/ \E p \in Providers : Close(p)

SpecServices == InitServices /\ [][NextServices]_vars

--------------------------------------------------------------------------
(* Concurrent calls.  A goroutine in a call is at "lock" (blocked in       *)
(* p.mu.Lock or p.mu.RLock), at "body" (holds the lock, has made no native *)
(* call), at "load" or "save" (before the index read or the index write of *)
(* addToIndex and removeFromIndex), at "unlock" (before the deferred       *)
(* unlock) or at "done" (the call has returned).  Every step makes at most *)
(* one native call.                                                        *)

ReadOps == {"Get", "Exists", "List"}

WriteOps == {"Set", "Delete"}

\* methods that all take the lock shared
LockMode_AllShared(op) == "R"

\* the lock a method takes first: RLock in Get, Exists, List; Lock in Set,
\* Delete, Close
LockMode(op) == IF op \in ReadOps THEN "R" ELSE "W"

\* a lock that lets a writer in while another writer holds it
CanAcquire_WritersShare(m, mode) ==
    IF mode = "W" THEN m.readers = {} ELSE m.writer = 0

\* sync.RWMutex: Lock returns when nobody holds the lock, RLock when no
\* writer holds it (which of several blocked goroutines gets the lock is
\* left open)
CanAcquire(m, mode) ==
    IF mode = "W" THEN m.writer = 0 /\ m.readers = {} ELSE m.writer = 0

Acquired(m, t, mode) ==
    IF mode = "W" THEN [m EXCEPT !.writer = t]
    ELSE [m EXCEPT !.readers = @ \cup {t}]

\* an Unlock that leaves the writer in place
Released_WriterStays(m, t) == [m EXCEPT !.readers = @ \ {t}]

\* Unlock or RUnlock by the goroutine that holds the lock
Released(m, t) ==
    [writer |-> IF m.writer = t THEN 0 ELSE m.writer, readers |-> m.readers \ {t}]

\* Set up to its native write: the error it returns with, or the index
\* update it goes on to
SetPrimary(c, isClosed, st, path, secret, f) ==
    LET value == IF c.JSONFormat THEN Marshal(secret) ELSE SecretString(secret)
        s == zkeyringSet(Env(st), c.ServiceName, path, value, f.primary)
    IN  IF isClosed THEN
            [env |-> Env(st), err |-> NewVaultError("Set", path, Name, "ErrClosed"),
             pc |-> "unlock"]
        ELSE IF c.JSONFormat /\ MarshalFails(secret) THEN
            [env |-> Env(st), err |-> NewVaultError("Set", path, Name, "ErrMarshal"),
             pc |-> "unlock"]
        ELSE IF s.res # "ok" THEN
            [env |-> s.env, err |-> NewVaultError("Set", path, Name, "ErrNative"),
             pc |-> "unlock"]
        ELSE [env |-> s.env, err |-> NoErr,
              pc |-> IF path # indexKey THEN "load" ELSE "unlock"]

\* Delete up to its native delete
DeletePrimary(c, isClosed, st, path, f) ==
    LET d == zkeyringDelete(Env(st), c.ServiceName, path, f.primary)
    IN  IF isClosed THEN
            [env |-> Env(st), err |-> NewVaultError("Delete", path, Name, "ErrClosed"),
             pc |-> "unlock"]
        ELSE IF d.res = "notfound" THEN
            [env |-> d.env, err |-> NoErr, pc |-> "unlock"]
        ELSE IF d.res = "err" THEN
            [env |-> d.env, err |-> NewVaultError("Delete", path, Name, "ErrNative"),
             pc |-> "unlock"]
        ELSE [env |-> d.env, err |-> NoErr,
              pc |-> IF path # indexKey THEN "load" ELSE "unlock"]

\* addToIndex and removeFromIndex between their loadIndex and their
\* saveIndex: whether an index is saved, and which
IndexUpdate(op, index, key) ==
    LET Keep(k) == k # key
    IN  IF op = "Set" THEN
            [save |-> ~Contains(index, key), index |-> Append(index, key)]
        ELSE [save |-> TRUE, index |-> SelectSeq(index, Keep)]

\* goroutine t calls a method of Provider p and blocks on the lock
Invoke(t, p, op, path, arg) ==
    /\ th[t].pc = "idle"
    /\ th' = [th EXCEPT ![t] = [Idle EXCEPT !.pc = "lock", !.prov = p,
                                           !.op = op, !.path = path, !.arg = arg]]
    /\ UNCHANGED <<cfg, closed, store, last, mu>>

\* p.mu.Lock() or p.mu.RLock() returns
Acquire(t) ==
    /\ th[t].pc = "lock"
    /\ CanAcquire(mu[th[t].prov], LockMode(th[t].op))
    /\ mu' = [mu EXCEPT ![th[t].prov] = Acquired(@, t, LockMode(th[t].op))]
    /\ th' = [th EXCEPT ![t].pc = "body"]
    /\ UNCHANGED <<cfg, closed, store, last>>

\* the body of Get, Exists or List
RunRead(t) ==
    LET p == th[t].prov
        r == IF th[t].op = "Get"
             THEN DoGet(cfg[p], closed[p], store, th[t].path, NoFail)
             ELSE IF th[t].op = "Exists"
             THEN DoExists(cfg[p], closed[p], store, th[t].path, NoFail)
             ELSE DoList(cfg[p], closed[p], store, th[t].path, NoFail)
    IN  /\ th[t].pc = "body" /\ th[t].op \in ReadOps
        /\ store' = r.env.store
        /\ th' = [th EXCEPT ![t].pc = "unlock", ![t].err = r.err,
                            ![t].secret = r.secret, ![t].found = r.found,
                            ![t].list = r.list]
        /\ UNCHANGED <<cfg, closed, last, mu>>

\* the body of Close
RunClose(t) ==
    /\ th[t].pc = "body" /\ th[t].op = "Close"
    /\ closed' = [closed EXCEPT ![th[t].prov] = DoClose(@)]
    /\ th' = [th EXCEPT ![t].pc = "unlock"]
    /\ UNCHANGED <<cfg, store, last, mu>>

\* Set or Delete up to its native call on the path
RunPrimary(t) ==
    LET p == th[t].prov
        r == IF th[t].op = "Set"
             THEN SetPrimary(cfg[p], closed[p], store, th[t].path, th[t].arg, NoFail)
             ELSE DeletePrimary(cfg[p], closed[p], store, th[t].path, NoFail)
    IN  /\ th[t].pc = "body" /\ th[t].op \in WriteOps
        /\ store' = r.env.store
        /\ th' = [th EXCEPT ![t].pc = r.pc, ![t].err = r.err]
        /\ UNCHANGED <<cfg, closed, last, mu>>

\* loadIndex of addToIndex or removeFromIndex, and what they make of it
RunLoad(t) ==
    LET l == loadIndex(cfg[th[t].prov], Env(store), NoFail)
        u == IndexUpdate(th[t].op, l.index, th[t].path)
    IN  /\ th[t].pc = "load"
        /\ store' = l.env.store
        /\ th' = [th EXCEPT ![t].pc = IF u.save THEN "save" ELSE "unlock",
                            ![t].index = IF u.save THEN u.index ELSE <<>>]
        /\ UNCHANGED <<cfg, closed, last, mu>>

\* saveIndex of addToIndex or removeFromIndex
RunSave(t) ==
    /\ th[t].pc = "save"
    /\ store' = saveIndex(cfg[th[t].prov], Env(store), th[t].index, NoFail).store
    /\ th' = [th EXCEPT ![t].pc = "unlock", ![t].index = <<>>]
    /\ UNCHANGED <<cfg, closed, last, mu>>

\* the deferred Unlock or RUnlock; the call returns
Unlock(t) ==
    /\ th[t].pc = "unlock"
    /\ mu' = [mu EXCEPT ![th[t].prov] = Released(@, t)]
    /\ th' = [th EXCEPT ![t].pc = "done"]
    /\ UNCHANGED <<cfg, closed, store, last>>

\* one plain-mode Provider; the store is empty or holds one path, indexed
InitLocked ==
    /\ cfg = [p \in {1} |-> New([ServiceName |-> "", JSONFormat |-> FALSE,
                                 OnIndexError |-> TRUE])]
    /\ closed = [p \in DOMAIN cfg |-> FALSE]
    /\ store \in {EmptyStore,
                  [EmptyStore EXCEPT
                      ![DefaultServiceName][<<"a">>] = SecretString(OneSecret),
                      ![DefaultServiceName][indexKey] = IndexText(<<<<"a">>>>)]}
    /\ last = Last(0, "New", <<>>, NilSecret,
                   Ret(Env(store), NoErr, NilSecret, FALSE, <<>>))
    /\ mu = [p \in DOMAIN cfg |-> Unlocked]
    /\ th = [t \in Threads |-> Idle]

\* every goroutine makes one call, on an ordinary path, of a native store
\* that does not fail
NextLocked ==
    \/ \E t \in Threads, p \in Providers, op \in {"Get", "Exists", "Delete"},
          path \in OrdinaryPaths : Invoke(t, p, op, path, NilSecret)
    \/ \E t \in Threads, p \in Providers, path \in OrdinaryPaths :
          Invoke(t, p, "Set", path, OneSecret)
    \/ \E t \in Threads, p \in Providers, op \in {"List", "Close"} :
          Invoke(t, p, op, <<>>, NilSecret)
    \/ \E t \in Threads : Acquire(t)
    \/ \E t \in Threads : RunRead(t)
    \/ \E t \in Threads : RunClose(t)
    \/ \E t \in Threads : RunPrimary(t)
    \/ \E t \in Threads : RunLoad(t)
    \/ \E t \in Threads : RunSave(t)
    \/ \E t \in Threads : Unlock(t)

SpecLocked == InitLocked /\ [][NextLocked]_vars

\* two plain-mode Providers of the default service, each with its own lock,
\* on an empty store
InitShared ==
    /\ cfg = [p \in {1, 2} |-> New([ServiceName |-> "", JSONFormat |-> FALSE,
                                    OnIndexError |-> TRUE])]
    /\ closed = [p \in DOMAIN cfg |-> FALSE]
    /\ store = EmptyStore
    /\ last = Last(0, "New", <<>>, NilSecret,
                   Ret(Env(store), NoErr, NilSecret, FALSE, <<>>))
    /\ mu = [p \in DOMAIN cfg |-> Unlocked]
    /\ th = [t \in Threads |-> Idle]

SpecShared == InitShared /\ [][NextLocked]_vars

--------------------------------------------------------------------------
(* Concurrent calls on a native store that fails, and the OnIndexError     *)
(* callback.  reportIndexError calls the callback in the goroutine of the  *)
(* operation, between the native call that failed and the statement that  *)
(* follows.  A callback either returns at once or calls Close on a         *)
(* Provider (Set and Delete begin with the same p.mu.Lock()): the          *)
(* goroutine is then at "cb_lock" (blocked in that Lock), "cb_body" or     *)
(* "cb_unlock", and resumes the operation when Close has returned.         *)

\* what the callback of config c does: the Provider it calls Close on, 0
\* when it returns without calling a Provider
Closes(c) == IF "Closes" \in DOMAIN c THEN c.Closes ELSE 0

PrimaryFails == [NoFail EXCEPT !.primary = TRUE]

IndexReadFails == [NoFail EXCEPT !.idxGet = TRUE]

IndexWriteFails == [NoFail EXCEPT !.idxSet = TRUE]

\* where goroutine t is after an index step that made the notifications
\* notes and goes on at pc: in the callback, if it was called and calls a
\* Provider
AfterReport(t, notes, pc) ==
    IF notes # <<>> /\ Closes(cfg[th[t].prov]) # 0
    THEN [pc |-> "cb_lock", resume |-> pc]
    ELSE [pc |-> pc, resume |-> ""]

\* Get, Exists, Set or Delete whose native call on the path fails
FailPrimary(t) ==
    LET p == th[t].prov
        r == IF th[t].op = "Get"
             THEN DoGet(cfg[p], closed[p], store, th[t].path, PrimaryFails)
             ELSE IF th[t].op = "Exists"
             THEN DoExists(cfg[p], closed[p], store, th[t].path, PrimaryFails)
             ELSE IF th[t].op = "Set"
             THEN SetPrimary(cfg[p], closed[p], store, th[t].path, th[t].arg,
                             PrimaryFails)
             ELSE DeletePrimary(cfg[p], closed[p], store, th[t].path, PrimaryFails)
    IN  /\ th[t].pc = "body" /\ th[t].op \in {"Get", "Exists", "Set", "Delete"}
        /\ ~closed[p]
        /\ store' = r.env.store
        /\ th' = [th EXCEPT ![t].pc = "unlock", ![t].err = r.err]
        /\ UNCHANGED <<cfg, closed, last, mu>>

\* List whose native read of the index entry fails
FailList(t) ==
    LET p == th[t].prov
        r == DoList(cfg[p], closed[p], store, th[t].path, IndexReadFails)
        a == AfterReport(t, r.env.notes, "unlock")
    IN  /\ th[t].pc = "body" /\ th[t].op = "List"
        /\ ~closed[p]
        /\ store' = r.env.store
        /\ th' = [th EXCEPT ![t].pc = a.pc, ![t].resume = a.resume,
                            ![t].err = r.err, ![t].list = r.list]
        /\ UNCHANGED <<cfg, closed, last, mu>>

\* loadIndex of addToIndex or removeFromIndex whose native read fails
FailLoad(t) ==
    LET l == loadIndex(cfg[th[t].prov], Env(store), IndexReadFails)
        u == IndexUpdate(th[t].op, l.index, th[t].path)
        a == AfterReport(t, l.env.notes, IF u.save THEN "save" ELSE "unlock")
    IN  /\ th[t].pc = "load"
        /\ store' = l.env.store
        /\ th' = [th EXCEPT ![t].pc = a.pc, ![t].resume = a.resume,
                            ![t].index = IF u.save THEN u.index ELSE <<>>]
        /\ UNCHANGED <<cfg, closed, last, mu>>

\* saveIndex of addToIndex or removeFromIndex whose native write fails
FailSave(t) ==
    LET e == saveIndex(cfg[th[t].prov], Env(store), th[t].index, IndexWriteFails)
        a == AfterReport(t, e.notes, "unlock")
    IN  /\ th[t].pc = "save"
        /\ store' = e.store
        /\ th' = [th EXCEPT ![t].pc = a.pc, ![t].resume = a.resume,
                            ![t].index = <<>>]
        /\ UNCHANGED <<cfg, closed, last, mu>>

\* the Lock() of the Close the callback calls returns
CallbackAcquire(t) ==
    LET q == Closes(cfg[th[t].prov])
    IN  /\ th[t].pc = "cb_lock"
        /\ CanAcquire(mu[q], LockMode("Close"))
        /\ mu' = [mu EXCEPT ![q] = Acquired(@, t, LockMode("Close"))]
        /\ th' = [th EXCEPT ![t].pc = "cb_body"]
        /\ UNCHANGED <<cfg, closed, store, last>>

\* the body of the Close the callback calls
CallbackClose(t) ==
    /\ th[t].pc = "cb_body"
    /\ closed' = [closed EXCEPT ![Closes(cfg[th[t].prov])] = DoClose(@)]
    /\ th' = [th EXCEPT ![t].pc = "cb_unlock"]
    /\ UNCHANGED <<cfg, store, last, mu>>

\* the Close the callback calls unlocks and returns, the callback returns
\* and the operation goes on
CallbackReturn(t) ==
    /\ th[t].pc = "cb_unlock"
    /\ mu' = [mu EXCEPT ![Closes(cfg[th[t].prov])] = Released(@, t)]
    /\ th' = [th EXCEPT ![t].pc = th[t].resume, ![t].resume = ""]
    /\ UNCHANGED <<cfg, closed, store, last>>

\* every goroutine makes one call, at one ordinary path, of a native store
\* whose calls may fail
NextFaulty ==
    \/ \E t \in Threads, p \in Providers, op \in {"Get", "Exists", "Delete"} :
          Invoke(t, p, op, <<"a">>, NilSecret)
    \/ \E t \in Threads, p \in Providers : Invoke(t, p, "Set", <<"a">>, OneSecret)
    \/ \E t \in Threads, p \in Providers, op \in {"List", "Close"} :
          Invoke(t, p, op, <<>>, NilSecret)
    \/ \E t \in Threads : Acquire(t)
    \/ \E t \in Threads : RunRead(t)
    \/ \E t \in Threads : RunClose(t)
    \/ \E t \in Threads : RunPrimary(t)
    \/ \E t \in Threads : RunLoad(t)
    \/ \E t \in Threads : RunSave(t)
    \/ \E t \in Threads : Unlock(t)
    \/ \E t \in Threads : FailPrimary(t)
    \/ \E t \in Threads : FailList(t)
    \/ \E t \in Threads : FailLoad(t)
    \/ \E t \in Threads : FailSave(t)

\* a step of goroutine t inside a call
ThreadStep(t) ==
    \/ Acquire(t) \/ RunRead(t) \/ RunClose(t) \/ RunPrimary(t)
    \/ RunLoad(t) \/ RunSave(t) \/ Unlock(t)
    \/ FailPrimary(t) \/ FailList(t) \/ FailLoad(t) \/ FailSave(t)

\* one Provider whose callback returns at once.  Every native call
\* returns, the scheduler runs a goroutine that can run and the mutex
\* admits a goroutine that waits for a lock that stays free: a goroutine
\* that can take a step takes one
SpecFaulty ==
    /\ InitLocked /\ [][NextFaulty]_vars
    /\ \A t \in Threads : WF_vars(ThreadStep(t))

\* two Providers of the default service whose callbacks call Close on the
\* first of them, on an empty store
InitCallback ==
    /\ cfg = [p \in {1, 2} |->
                New([ServiceName |-> "", JSONFormat |-> FALSE,
                     OnIndexError |-> TRUE, Closes |-> 1])]
    /\ closed = [p \in DOMAIN cfg |-> FALSE]
    /\ store = EmptyStore
    /\ last = Last(0, "New", <<>>, NilSecret,
                   Ret(Env(store), NoErr, NilSecret, FALSE, <<>>))
    /\ mu = [p \in DOMAIN cfg |-> Unlocked]
    /\ th = [t \in Threads |-> Idle]

NextCallback ==
    \/ \E t \in Threads, p \in Providers, op \in {"Get", "Exists", "Delete"} :
          Invoke(t, p, op, <<"a">>, NilSecret)
    \/ \E t \in Threads, p \in Providers : Invoke(t, p, "Set", <<"a">>, OneSecret)
    \/ \E t \in Threads, p \in Providers, op \in {"List", "Close"} :
          Invoke(t, p, op, <<>>, NilSecret)
    \/ \E t \in Threads : Acquire(t)
    \/ \E t \in Threads : RunRead(t)
    \/ \E t \in Threads : RunClose(t)
    \/ \E t \in Threads : RunPrimary(t)
    \/ \E t \in Threads : RunLoad(t)
    \/ \E t \in Threads : RunSave(t)
    \/ \E t \in Threads : Unlock(t)
    \/ \E t \in Threads : FailPrimary(t)
    \/ \E t \in Threads : FailList(t)
    \/ \E t \in Threads : FailLoad(t)
    \/ \E t \in Threads : FailSave(t)
    \/ \E t \in Threads : CallbackAcquire(t)
    \/ \E t \in Threads : CallbackClose(t)
    \/ \E t \in Threads : CallbackReturn(t)

SpecCallback == InitCallback /\ [][NextCallback]_vars

--------------------------------------------------------------------------
(* Claims *)

NativeFailure(calls) == \E i \in 1..Len(calls) : calls[i].res = "err"

CrudOps == {"Get", "Set", "Delete", "Exists", "List"}

\* C1: an operation other than Close that a closed Provider is asked for
\* returns an error matching ErrClosed, makes no native call (none on the
\* path, none on the reserved key) and leaves the store as it is, whatever
\* the store holds.
C1_ClosedRejects ==
    [][\A p \in Providers :
          (closed[p] /\ last'.prov = p /\ last'.op \in CrudOps)
          => /\ ErrorsIs(last'.err, "ErrClosed")
             /\ last'.calls = <<>>
             /\ store' = store]_vars

\* a Get on a closed Provider of a path the store holds was rejected
C1_Witness ==
    \E p \in Providers :
        /\ closed[p] /\ last.prov = p /\ last.op = "Get"
        /\ ErrorsIs(last.err, "ErrClosed")
        /\ store[cfg[p].ServiceName][last.path] # NotFound
        /\ store[cfg[p].ServiceName][indexKey] # NotFound

\* C2: a Provider starts open; once closed it stays closed whatever is
\* called; every Close, on an open or on a closed Provider, returns nil and
\* leaves it closed.
C2_OneWay ==
    /\ \A p \in Providers : ~closed[p]
    /\ [][\A p \in Providers :
             /\ closed[p] => closed'[p]
             /\ (last'.prov = p /\ last'.op = "Close")
                => (closed'[p] /\ last'.err = NoErr)]_vars

\* a closed Provider was closed: Close returned nil
C2_Witness ==
    \E p \in Providers :
        closed[p] /\ last.prov = p /\ last.op = "Close" /\ last.err = NoErr

\* what List("") of Provider p returns in the state reached
ListNow(p) == DoList(cfg[p], FALSE, store, <<>>, NoFail).list

\* C3: when no native call fails, a successful Set of an ordinary path
\* leaves the path in List(""), and a successful Delete of an ordinary
\* path that had its entry (a Set wrote it and no Delete removed it since)
\* leaves the path out of List(""), whatever was set and deleted before.
C3_IndexMembership ==
    (/\ last.op \in {"Set", "Delete"}
     /\ last.path \in OrdinaryPaths
     /\ last.err = NoErr
     /\ ~NativeFailure(last.calls))
    => /\ last.op = "Set" => Contains(ListNow(last.prov), last.path)
       /\ (last.op = "Delete" /\ last.calls[1].res = "ok")
          => ~Contains(ListNow(last.prov), last.path)

\* a Delete removed the entry and the index element of one path while the
\* index keeps another one
C3_Witness ==
    /\ last.op = "Delete" /\ last.path \in OrdinaryPaths /\ last.err = NoErr
    /\ Len(last.calls) = 3
    /\ \A i \in 1..3 : last.calls[i].res = "ok"
    /\ Len(ListNow(last.prov)) = 1

\* C4: a Set or Delete of an ordinary path whose native write or delete
\* succeeded returns nil, whatever happened to the index read, decode and
\* write of that call; a Get makes no native call but the read of its path.
C4_IndexFailureIsolated ==
    /\ (/\ last.op \in {"Set", "Delete"}
        /\ last.path \in OrdinaryPaths
        /\ last.calls # <<>>
        /\ last.calls[1].res = "ok")
       => last.err = NoErr
    /\ last.op = "Get"
       => \A i \in 1..Len(last.calls) :
             /\ i = 1
             /\ last.calls[i].fn = "Get"
             /\ last.calls[i].key = last.path

\* a Set returned nil although the index read and the index write failed
C4_Witness ==
    /\ last.op = "Set" /\ last.path \in OrdinaryPaths /\ last.err = NoErr
    /\ Len(last.calls) = 3
    /\ last.calls[2].res = "err" /\ last.calls[3].res = "err"

\* the native calls an operation made on the index entry for the index
IndexCalls(l) ==
    IF l.op = "List" THEN l.calls
    ELSE IF l.op \in {"Set", "Delete"} /\ l.calls # <<>> THEN Tail(l.calls)
    ELSE <<>>

LoadFailed(l) ==
    \E i \in 1..Len(IndexCalls(l)) :
        IndexCalls(l)[i].fn = "Get" /\ IndexCalls(l)[i].res = "err"

SaveFailed(l) ==
    \E i \in 1..Len(IndexCalls(l)) :
        IndexCalls(l)[i].fn = "Set" /\ IndexCalls(l)[i].res = "err"

\* the index read succeeded on the text st holds, which is no list of strings
DecodeFailed(l, st) ==
    /\ \E i \in 1..Len(IndexCalls(l)) :
          IndexCalls(l)[i].fn = "Get" /\ IndexCalls(l)[i].res = "ok"
    /\ UnmarshalIndex(st[cfg[l.prov].ServiceName][indexKey]).err

IndexOps == {"Set", "Delete", "List"}

\* C5 as claimed: with a callback configured, the index operation of one
\* Set, Delete or List makes exactly one notification when it failed (its
\* read, its decoding or its write, or several of them) and none otherwise.
C5_OnePerIndexOperation ==
    [][(last'.op \in IndexOps /\ cfg[last'.prov].OnIndexError)
       => Len(last'.notes) =
             IF LoadFailed(last') \/ DecodeFailed(last', store) \/ SaveFailed(last')
             THEN 1 ELSE 0]_vars

\* C5, amended: with a callback configured, each failed step of an index
\* operation makes exactly one notification, tagged with the step: "load"
\* for a failed native read of the index entry, "unmarshal" for an index
\* text that does not decode, "save" for a failed native write; an index
\* operation whose read and write both fail makes two, one that does not
\* fail makes none.
C5_OnePerFailedStep ==
    [][(last'.op \in IndexOps /\ cfg[last'.prov].OnIndexError)
       => last'.notes =
             (IF LoadFailed(last') THEN <<"load">> ELSE <<>>)
             \o (IF DecodeFailed(last', store) THEN <<"unmarshal">> ELSE <<>>)
             \o (IF SaveFailed(last') THEN <<"save">> ELSE <<>>)]_vars

\* the index read and the index write of one Delete both failed
C5_Witness ==
    /\ last.op = "Delete" /\ cfg[last.prov].OnIndexError
    /\ LoadFailed(last) /\ SaveFailed(last)
    /\ last.notes = <<"load", "save">>

\* the index persisted for Provider p: what its index entry decodes to
PersistedIndex(p) == UnmarshalIndex(store[cfg[p].ServiceName][indexKey]).index

\* C6: whatever paths and values the callers have passed (the reserved key
\* among the paths), a List returns no element equal to the reserved key
\* and the persisted index it read holds none.
C6_ReservedKeyNeverListed ==
    (last.op = "List" /\ last.err = NoErr)
    => /\ ~Contains(last.list, indexKey)
       /\ ~Contains(PersistedIndex(last.prov), indexKey)

\* C7: the Secret a successful Get returns has Metadata.Provider equal to
\* Name() and Metadata.Path equal to the path asked for, in plain and in
\* structured mode, whatever Metadata the Secret passed to Set carried and
\* whatever the stored text is.
C7_MetadataStamped ==
    (last.op = "Get" /\ last.err = NoErr)
    => /\ last.secret.Metadata.Provider = Name
       /\ last.secret.Metadata.Path = last.path

\* the text the last call's path holds in the store of its Provider
StoredText == store[cfg[last.prov].ServiceName][last.path]

\* a structured-mode Get found an entry at its path
StructuredGetOfEntry ==
    /\ last.op = "Get" /\ cfg[last.prov].JSONFormat
    /\ last.calls # <<>> /\ last.calls[1].res = "ok"

\* C8 as claimed: a structured-mode Get of any text T that a plain-mode
\* Provider stored succeeds with Value = T and no fields, also when T
\* parses as the structured form.
C8_PlainFallbackAnyText ==
    StructuredGetOfEntry
    => /\ last.err = NoErr
       /\ last.secret.Value = StoredText
       /\ last.secret.Fields = NoFields

\* C8, amended: a structured-mode Get of a text T that is neither a JSON
\* object nor the JSON literal null succeeds with Value = T and no fields.
C8_PlainFallback ==
    (StructuredGetOfEntry /\ StoredText.k \notin {"obj", "null"})
    => /\ last.err = NoErr
       /\ last.secret.Value = StoredText
       /\ last.secret.Fields = NoFields

\* a structured-mode Get returned, as the value, a JSON array text that a
\* plain-mode Set stored at an ordinary path
C8_Witness ==
    /\ StructuredGetOfEntry /\ last.path \in OrdinaryPaths
    /\ last.err = NoErr
    /\ StoredText.k = "arr" /\ last.secret.Value = StoredText

\* what Get of the last call's path returns to its Provider in the state
\* reached, the native read not failing
GetNow == DoGet(cfg[last.prov], closed[last.prov], store, last.path, NoFail)

C10_PlainLastWriteWins ==
    /\ []((last.op = "Set" /\ ~cfg[last.prov].JSONFormat /\ last.err = NoErr)
          => /\ GetNow.err = NoErr
             /\ GetNow.secret.Value = last.arg.Value
             /\ GetNow.secret.Fields = NoFields)
    /\ [][\A s \in ServiceNames, path \in OrdinaryPaths :
             store'[s][path] # store[s][path]
             => (last'.op \in {"Set", "Delete"} /\ last'.path = path)]_vars

\* a plain-mode Set of a path that was in the index already, hence set
\* before, stored its value
C10_Witness ==
    /\ last.op = "Set" /\ ~cfg[last.prov].JSONFormat /\ last.err = NoErr
    /\ last.path \in OrdinaryPaths
    /\ Len(last.calls) = 2
    /\ StoredText = last.arg.Value /\ last.arg.Value # Str(0)

\* res holds the elements of idx that begin with prefix, each as often and
\* in the order idx holds them: the positions of idx that match are the
\* image of a strictly increasing map from the positions of res
IsPrefixSelection(res, idx, prefix) ==
    \E pos \in [1..Len(res) -> 1..Len(idx)] :
        /\ \A i, j \in 1..Len(res) : i < j => pos[i] < pos[j]
        /\ \A i \in 1..Len(res) : idx[pos[i]] = res[i]
        /\ \A k \in 1..Len(idx) :
              HasPrefix(idx[k], prefix) <=> (\E i \in 1..Len(res) : pos[i] = k)

\* C11: a List on an open Provider whose read of the index did not fail
\* returns no error and exactly the keys of the persisted index that begin
\* with the prefix, each as often as the index holds it and in the order
\* of the index; with the empty prefix that is the whole index, with a
\* prefix no key begins with the empty list.
C11_ListFiltersIndex ==
    (/\ last.op = "List" /\ ~closed[last.prov]
     /\ ~NativeFailure(last.calls))
    => /\ last.err = NoErr
       /\ IsPrefixSelection(last.list, PersistedIndex(last.prov), last.path)
       /\ (last.path = <<>>) => (last.list = PersistedIndex(last.prov))
       /\ (\A k \in 1..Len(PersistedIndex(last.prov)) :
              ~HasPrefix(PersistedIndex(last.prov)[k], last.path))
          => (last.list = <<>>)

\* a List of an index holding a key twice and another key once returned the
\* repeated key twice and left the other key out
C11_Witness ==
    /\ last.op = "List" /\ ~closed[last.prov] /\ last.err = NoErr
    /\ last.path = <<"a", "b">>
    /\ Len(PersistedIndex(last.prov)) = 3
    /\ last.list = <<<<"a", "b">>, <<"a", "b">>>>

\* how often key occurs in seq
Count(seq, key) == Cardinality({i \in 1..Len(seq) : seq[i] = key})

\* C12: from an absent index, whatever Sets and Deletes of ordinary paths
\* were made and whichever native calls failed, the persisted index holds
\* no key more than once; a Set of a path the index already held, with no
\* native call failing, leaves the path in the index exactly once.
C12_IndexHasNoDuplicate ==
    /\ \A p \in Providers : \A key \in CallerPaths :
          Count(PersistedIndex(p), key) <= 1
    /\ (/\ last.op = "Set" /\ last.err = NoErr
        /\ ~NativeFailure(last.calls))
       => Count(PersistedIndex(last.prov), last.path) = 1

\* a Set found its path in an index of two keys and wrote no index
C12_Witness ==
    /\ last.op = "Set" /\ last.err = NoErr
    /\ Len(last.calls) = 2 /\ ~NativeFailure(last.calls)
    /\ Len(PersistedIndex(last.prov)) = 2
    /\ Count(PersistedIndex(last.prov), last.path) = 1

\* goroutine w is in a Set or Delete between its native call on the path
\* and the end of its index update
MidWrite(w) == th[w].op \in WriteOps /\ th[w].pc \in {"load", "save"}

\* C13: while a Set or Delete of a Provider is between its native write or
\* delete of the path and the end of its index update, no Get, Exists or
\* List of the same Provider holds the lock or makes its native read.
C13_NoReadDuringWrite ==
    /\ [](\A w, r \in Threads :
            (MidWrite(w) /\ th[r].prov = th[w].prov /\ th[r].op \in ReadOps)
            => th[r].pc \in {"lock", "done"})
    /\ [][\A w, r \in Threads :
            (MidWrite(w) /\ th[r].prov = th[w].prov /\ th[r].op \in ReadOps)
            => th'[r] = th[r]]_vars

\* a Set has written a path the index does not hold yet and a List of the
\* same Provider is blocked on the lock
C13_Witness ==
    \E w, r \in Threads :
        /\ MidWrite(w) /\ th[w].op = "Set" /\ th[w].pc = "save"
        /\ th[r].prov = th[w].prov /\ th[r].op = "List" /\ th[r].pc = "lock"
        /\ store[cfg[th[w].prov].ServiceName][th[w].path] # NotFound
        /\ ~Contains(PersistedIndex(th[w].prov), th[w].path)

\* goroutine t holds the lock of its Provider in a Set or Delete
InWrite(t) ==
    th[t].op \in WriteOps /\ th[t].pc \in {"body", "load", "save", "unlock"}

\* C14: of the goroutines concurrently in Set and Delete on one Provider
\* at most one is between taking and releasing the lock, so no index
\* load-modify-save runs inside another; a Set on an open Provider returns
\* nil; once a Set has returned nil its path is in the persisted index
\* exactly once, whichever Sets ran concurrently with it (of the same or
\* of other paths), unless some goroutine deletes that path.
C14_NoLostIndexUpdate ==
    /\ \A t, u \in Threads :
          (t # u /\ th[t].prov = th[u].prov) => ~(InWrite(t) /\ InWrite(u))
    /\ \A t \in Threads :
          (th[t].op = "Set" /\ th[t].pc = "done")
          => /\ (th[t].err # NoErr)
                => (ErrorsIs(th[t].err, "ErrClosed") /\ closed[th[t].prov])
             /\ (/\ th[t].err = NoErr
                 /\ \A u \in Threads :
                       ~(th[u].op = "Delete" /\ th[u].prov = th[t].prov
                         /\ th[u].path = th[t].path))
                => Count(PersistedIndex(th[t].prov), th[t].path) = 1

\* two Sets of different paths on an empty store have both returned nil
\* and the index holds both paths
C14_Witness ==
    \E t, u \in Threads :
        /\ th[t].op = "Set" /\ th[u].op = "Set" /\ th[t].path # th[u].path
        /\ th[t].pc = "done" /\ th[u].pc = "done"
        /\ th[t].err = NoErr /\ th[u].err = NoErr
        /\ PersistedIndex(th[t].prov) = <<th[t].path, th[u].path>>

\* C15: on an open Provider, a Get returns an error matching
\* ErrSecretNotFound exactly when its native read finds no entry (when the
\* read does not fail: exactly when the store has none at the path); an
\* Exists returns (true, nil) exactly when its native read succeeds and
\* (false, nil) when it finds no entry; and in every state, for every path
\* and with the same outcome of the native read, Exists returns true
\* exactly when Get succeeds, and (false, nil) when Get returns not found,
\* whatever the stored text is.
C15_ExistsAgreesWithGet ==
    /\ (last.op = "Get" /\ ~closed[last.prov])
       => /\ ErrorsIs(last.err, "ErrSecretNotFound")
             <=> (last.calls[1].res = "notfound")
          /\ ~NativeFailure(last.calls)
             => (ErrorsIs(last.err, "ErrSecretNotFound")
                 <=> (StoredText = NotFound))
    /\ (last.op = "Exists" /\ ~closed[last.prov])
       => /\ (last.found /\ last.err = NoErr) <=> (last.calls[1].res = "ok")
          /\ (last.calls[1].res = "notfound")
             => (~last.found /\ last.err = NoErr)
          /\ ~NativeFailure(last.calls)
             => (last.found <=> (StoredText # NotFound))
    /\ \A p \in Providers, path \in CallerPaths, f \in ReadFails :
          LET g == DoGet(cfg[p], closed[p], store, path, f)
              e == DoExists(cfg[p], closed[p], store, path, f)
          IN  ~closed[p]
              => /\ e.found <=> (g.err = NoErr)
                 /\ ErrorsIs(g.err, "ErrSecretNotFound")
                    => (~e.found /\ e.err = NoErr)

\* a Get of a path without entry returned not found while another path has
\* an entry, so that Exists is false for the one and true for the other
C15_Witness ==
    /\ last.op = "Get" /\ ~closed[last.prov]
    /\ ErrorsIs(last.err, "ErrSecretNotFound")
    /\ ~DoExists(cfg[last.prov], FALSE, store, last.path, NoFail).found
    /\ \E path \in OrdinaryPaths :
          DoExists(cfg[last.prov], FALSE, store, path, NoFail).found

\* what a Delete of the path of the last call returns in the state reached
DeleteNow ==
    DoDelete(cfg[last.prov], closed[last.prov], store, last.path, NoFail)

\* C16: on an open Provider, a Delete whose native delete finds no entry
\* returns nil and leaves the store as it was; after a Delete that returned
\* nil, a second Delete of the same path returns nil too and leaves the
\* store the first Delete left.
C16_DeleteIdempotent ==
    /\ []((last.op = "Delete" /\ ~closed[last.prov] /\ last.err = NoErr)
          => (DeleteNow.err = NoErr /\ DeleteNow.env.store = store))
    /\ [][(/\ last'.op = "Delete" /\ ~closed[last'.prov]
           /\ last'.calls[1].res = "notfound")
          => (last'.err = NoErr /\ store' = store)]_vars

\* a Delete of an ordinary path found no entry and returned nil, while the
\* store holds an index of other paths
C16_Witness ==
    /\ last.op = "Delete" /\ ~closed[last.prov] /\ last.err = NoErr
    /\ last.path \in OrdinaryPaths
    /\ last.calls[1].res = "notfound"
    /\ PersistedIndex(last.prov) # <<>>
    /\ ~Contains(PersistedIndex(last.prov), last.path)

\* the operations that make their first native call on the path
PrimaryOps == {"Get", "Exists", "Set", "Delete"}

\* C17: when the native call on the path of a Get, Exists, Set or Delete
\* fails otherwise than by not finding the entry, the operation returns an
\* error that does not match ErrSecretNotFound and that carries the name
\* of the operation, the path, the provider name and the native error;
\* Get returns no secret with it and Exists returns false.
C17_NativeFailureSurfaced ==
    (/\ last.op \in PrimaryOps
     /\ last.calls # <<>> /\ last.calls[1].res = "err")
    => /\ last.err # NoErr
       /\ ~ErrorsIs(last.err, "ErrSecretNotFound")
       /\ last.err.Op = last.op
       /\ last.err.Path = last.path
       /\ last.err.Provider = Name
       /\ last.err.Err = "ErrNative"
       /\ last.secret = NilSecret
       /\ ~last.found

\* the native write of a Set of a path the store holds failed and the Set
\* returned the error
C17_Witness ==
    /\ last.op = "Set" /\ last.calls # <<>> /\ last.calls[1].res = "err"
    /\ last.err = NewVaultError("Set", last.path, Name, "ErrNative")
    /\ StoredText # NotFound

\* C18: a structured-mode Set on an open Provider of a secret json.Marshal
\* fails on returns an error naming Set and the path, makes no native call
\* and leaves the store, the entry at the path and the index entry among
\* it, as it was.
C18_EncodeFailureWritesNothing ==
    [][(/\ last'.op = "Set" /\ ~closed[last'.prov]
        /\ cfg[last'.prov].JSONFormat /\ MarshalFails(last'.arg))
       => /\ last'.err # NoErr
          /\ last'.err.Op = "Set" /\ last'.err.Path = last'.path
          /\ last'.calls = <<>>
          /\ store' = store]_vars

\* a structured-mode Set of a secret that does not encode returned an error
\* at a path that holds an entry, with an index in the store
C18_Witness ==
    /\ last.op = "Set" /\ ~closed[last.prov]
    /\ cfg[last.prov].JSONFormat /\ MarshalFails(last.arg)
    /\ last.err # NoErr /\ last.calls = <<>>
    /\ last.path \in OrdinaryPaths
    /\ StoredText # NotFound
    /\ PersistedIndex(last.prov) # <<>>

\* what Get, Exists and List of Provider q return on store st when no
\* native call fails
Reads(q, st) ==
    [path \in CallerPaths |->
        <<DoGet(cfg[q], closed[q], st, path, NoFail).err,
          DoGet(cfg[q], closed[q], st, path, NoFail).secret,
          DoExists(cfg[q], closed[q], st, path, NoFail).found,
          DoList(cfg[q], closed[q], st, path, NoFail).list>>]

\* C19: every native call of an operation names the service of the
\* Provider it was asked of; the operation leaves the entries of every
\* other service as they were, and what Get, Exists and List of a Provider
\* of another service return is the same before and after it.
C19_ServiceIsolation ==
    [][\A p \in Providers :
          (last'.prov = p /\ last'.op \in CrudOps)
          => /\ \A i \in 1..Len(last'.calls) :
                   last'.calls[i].service = cfg[p].ServiceName
             /\ \A s \in ServiceNames :
                   (s # cfg[p].ServiceName) => (store'[s] = store[s])
             /\ \A q \in Providers :
                   (cfg[q].ServiceName # cfg[p].ServiceName)
                   => (Reads(q, store') = Reads(q, store))]_vars

\* the Provider of one service has deleted a path, with its index written,
\* and the other service still holds its entry at that path and indexes it
C19_Witness ==
    \E q \in Providers :
        /\ last.op = "Delete" /\ last.err = NoErr /\ Len(last.calls) = 3
        /\ ~NativeFailure(last.calls)
        /\ cfg[q].ServiceName # cfg[last.prov].ServiceName
        /\ store[cfg[last.prov].ServiceName][last.path] = NotFound
        /\ store[cfg[q].ServiceName][last.path] # NotFound
        /\ Contains(PersistedIndex(q), last.path)

\* C20: a Get, an Exists and a List leave the store, secrets and index, as
\* it was; on an open Provider a Get and an Exists make one native call,
\* a read of the path asked for, and a List makes one native call, a read
\* of the reserved index entry.
C20_ReadsWriteNothing ==
    [][(last'.op \in ReadOps)
       => /\ store' = store
          /\ ~closed[last'.prov]
             => /\ Len(last'.calls) = 1
                /\ last'.calls[1].fn = "Get"
                /\ last'.calls[1].service = cfg[last'.prov].ServiceName
                /\ last'.calls[1].key =
                      IF last'.op = "List" THEN indexKey ELSE last'.path]_vars

\* a List with a prefix read the index entry of a store that holds the
\* index and the entries of two paths
C20_Witness ==
    /\ last.op = "List" /\ ~closed[last.prov] /\ last.path = <<"a">>
    /\ last.calls = <<Call("Get", cfg[last.prov].ServiceName, indexKey, "ok")>>
    /\ Len(last.list) = 2
    /\ \A path \in OrdinaryPaths :
          store[cfg[last.prov].ServiceName][path] # NotFound

\* the native calls of calls are, in this order and each at most once, the
\* first ones of plan (a sequence of <<function, key>>)
FollowsPlan(calls, plan) ==
    /\ Len(calls) <= Len(plan)
    /\ \A i \in 1..Len(calls) :
          calls[i].fn = plan[i][1] /\ calls[i].key = plan[i][2]

\* C21: whatever the outcomes of its native calls, a Get or an Exists makes
\* at most one native call, a read of the path; a List at most one, a read
\* of the index entry; a Set at most one write of the path, then one read
\* and then one write of the index entry; a Delete at most one delete of
\* the path, then one read and then one write of the index entry.
C21_NoRetry ==
    /\ (last.op \in {"Get", "Exists"})
       => FollowsPlan(last.calls, <<<<"Get", last.path>>>>)
    /\ (last.op = "List")
       => FollowsPlan(last.calls, <<<<"Get", indexKey>>>>)
    /\ (last.op = "Set")
       => FollowsPlan(last.calls, <<<<"Set", last.path>>, <<"Get", indexKey>>,
                                    <<"Set", indexKey>>>>)
    /\ (last.op = "Delete")
       => FollowsPlan(last.calls, <<<<"Delete", last.path>>, <<"Get", indexKey>>,
                                    <<"Set", indexKey>>>>)

\* a Set made its three native calls, of which the read and the write of
\* the index entry failed
C21_Witness ==
    /\ last.op = "Set" /\ last.err = NoErr /\ Len(last.calls) = 3
    /\ last.calls[1].res = "ok"
    /\ last.calls[2].res = "err" /\ last.calls[3].res = "err"

\* C22: after a Delete of an ordinary path on an open Provider that
\* returned nil and none of whose native calls failed (the native delete
\* having found the entry or not), the persisted index does not hold the
\* path.
C22_DeleteAlwaysUnindexes ==
    (/\ last.op = "Delete" /\ ~closed[last.prov]
     /\ last.path \in OrdinaryPaths
     /\ last.err = NoErr /\ ~NativeFailure(last.calls))
    => ~Contains(PersistedIndex(last.prov), last.path)

\* the index Provider p would load from store st
IndexIn(st, p) == UnmarshalIndex(st[cfg[p].ServiceName][indexKey]).index

\* the keys of index other than key, in the order index holds them
Others(index, key) ==
    LET Other(k) == k # key
    IN  SelectSeq(index, Other)

\* C23: a Set or a Delete of an ordinary path on an open Provider leaves
\* the other keys of the persisted index in it, and in their order,
\* whichever of its native calls fail.
C23_OtherKeysKept ==
    [][(/\ last'.op \in WriteOps /\ ~closed[last'.prov]
        /\ last'.path \in OrdinaryPaths)
       => (Others(IndexIn(store', last'.prov), last'.path)
           = Others(IndexIn(store, last'.prov), last'.path))]_vars

\* C24: a Set or a Delete of the reserved key on an open Provider leaves
\* the reserved entry, and with it the persisted index, as it was, and a
\* Get of the reserved key does not return the text of the index as the
\* value of a secret.
C24_ReservedKeyNotAddressable ==
    [][/\ (/\ last'.op \in WriteOps /\ ~closed[last'.prov]
           /\ last'.path = indexKey)
          => (store'[cfg[last'.prov].ServiceName][indexKey]
              = store[cfg[last'.prov].ServiceName][indexKey])
       /\ (/\ last'.op = "Get" /\ ~closed[last'.prov]
           /\ last'.path = indexKey /\ last'.err = NoErr)
          => (last'.secret.Value
              # store[cfg[last'.prov].ServiceName][indexKey])]_vars

\* C25: a Set whose native write of the path fails and a Delete whose
\* native delete of the path fails otherwise than by not finding the entry
\* return the error, make no other native call (no read and no write of
\* the index entry), call OnIndexError never and leave the store as it
\* was.
C25_PrimaryFailureSkipsIndex ==
    [][(/\ last'.op \in WriteOps
        /\ last'.calls # <<>> /\ last'.calls[1].res = "err")
       => /\ ErrorsIs(last'.err, "ErrNative")
          /\ Len(last'.calls) = 1
          /\ last'.notes = <<>>
          /\ store' = store]_vars

\* the native delete of an indexed ordinary path failed, on a Provider with
\* a callback; the entry and the index are as before
C25_Witness ==
    /\ last.op = "Delete" /\ last.path \in OrdinaryPaths
    /\ cfg[last.prov].OnIndexError
    /\ last.calls # <<>> /\ last.calls[1].res = "err"
    /\ ErrorsIs(last.err, "ErrNative")
    /\ StoredText # NotFound
    /\ Contains(PersistedIndex(last.prov), last.path)

\* the text of the reserved entry of the Provider of the last call
IndexEntry == store[cfg[last.prov].ServiceName][indexKey]

\* C26: a List on an open Provider with a callback returns the empty list
\* and no error, with no notification when the index entry is absent, with
\* the one notification "load" when the native read of it fails otherwise,
\* and with the one notification "unmarshal" when the text read does not
\* decode as a list of strings.
C26_LoadFailsSoft ==
    (last.op = "List" /\ ~closed[last.prov] /\ cfg[last.prov].OnIndexError)
    => /\ (last.calls[1].res = "notfound")
          => (last.list = <<>> /\ last.err = NoErr /\ last.notes = <<>>)
       /\ (last.calls[1].res = "err")
          => (last.list = <<>> /\ last.err = NoErr /\ last.notes = <<"load">>)
       /\ (last.calls[1].res = "ok" /\ UnmarshalIndex(IndexEntry).err)
          => (last.list = <<>> /\ last.err = NoErr
              /\ last.notes = <<"unmarshal">>)
       /\ (last.calls[1].res = "ok" /\ ~UnmarshalIndex(IndexEntry).err)
          => last.notes = <<>>

\* a List read an index entry that holds the text of a secret and returned
\* the empty list
C26_Witness ==
    /\ last.op = "List" /\ ~closed[last.prov] /\ cfg[last.prov].OnIndexError
    /\ last.calls[1].res = "ok" /\ UnmarshalIndex(IndexEntry).err
    /\ last.list = <<>> /\ last.err = NoErr /\ last.notes = <<"unmarshal">>
    /\ \E path \in OrdinaryPaths :
          store[cfg[last.prov].ServiceName][path] # NotFound

\* C27: a Set of an ordinary path that returns nil with no native call
\* failing makes no write of the index entry when the persisted index holds
\* exactly that key (a key that differs in case is another key) and
\* leaves the index, the position of the key among it, as it was;
\* otherwise it writes the index with the key appended at the end, also
\* when the key had been in the index before and was removed.
C27_AddAppendsOnce ==
    [][(/\ last'.op = "Set" /\ ~closed[last'.prov]
        /\ last'.path \in CasePaths
        /\ last'.err = NoErr /\ ~NativeFailure(last'.calls))
       => IF Count(IndexIn(store, last'.prov), last'.path) > 0
          THEN /\ Len(last'.calls) = 2
               /\ IndexIn(store', last'.prov) = IndexIn(store, last'.prov)
          ELSE /\ Len(last'.calls) = 3
               /\ last'.calls[3].fn = "Set" /\ last'.calls[3].key = indexKey
               /\ IndexIn(store', last'.prov)
                  = Append(IndexIn(store, last'.prov), last'.path)]_vars

\* a Set has appended its path behind the path that differs from it in
\* case only
C27_Witness ==
    /\ last.op = "Set" /\ ~closed[last.prov] /\ last.err = NoErr
    /\ Len(last.calls) = 3 /\ ~NativeFailure(last.calls)
    /\ last.path = <<"a">>
    /\ PersistedIndex(last.prov) = <<<<"A">>, <<"a">>>>

\* res holds the elements of idx other than key, each as often and in the
\* order idx holds them
IsRemoval(res, idx, key) ==
    \E pos \in [1..Len(res) -> 1..Len(idx)] :
        /\ \A i, j \in 1..Len(res) : i < j => pos[i] < pos[j]
        /\ \A i \in 1..Len(res) : idx[pos[i]] = res[i]
        /\ \A k \in 1..Len(idx) :
              (idx[k] # key) <=> (\E i \in 1..Len(res) : pos[i] = k)

\* C28: a Delete of an ordinary path whose native delete found the entry,
\* with no native call failing, reads the index entry and writes it back,
\* whether or not the index held the path and whether or not there was an
\* index entry; the index written holds the keys read other than the path, as
\* often and in the order read, and the path not at all.
C28_RemoveRewrites ==
    [][(/\ last'.op = "Delete" /\ ~closed[last'.prov]
        /\ last'.path \in OrdinaryPaths
        /\ last'.calls[1].res = "ok" /\ ~NativeFailure(last'.calls))
       => /\ Len(last'.calls) = 3
          /\ last'.calls[2].fn = "Get" /\ last'.calls[2].key = indexKey
          /\ last'.calls[3].fn = "Set" /\ last'.calls[3].key = indexKey
          /\ store'[cfg[last'.prov].ServiceName][indexKey]
             = IndexText(IndexIn(store', last'.prov))
          /\ IsRemoval(IndexIn(store', last'.prov), IndexIn(store, last'.prov),
                       last'.path)
          /\ Count(IndexIn(store', last'.prov), last'.path) = 0]_vars

\* a Delete of a path that had an entry found no index entry and wrote an
\* empty index
C28_Witness ==
    /\ last.op = "Delete" /\ ~closed[last.prov] /\ last.err = NoErr
    /\ last.path \in OrdinaryPaths
    /\ Len(last.calls) = 3 /\ ~NativeFailure(last.calls)
    /\ last.calls[2].res = "notfound"
    /\ IndexEntry = IndexText(<<>>)

\* C29: a List on an open Provider returns the keys of the persisted index
\* that match, whether or not the store holds their entries: when another
\* process has removed the entry of an indexed path, List("") still holds
\* the path while Exists is false and Get returns not found; when another
\* process has written a path the index does not hold, List("") does not
\* hold it; and a key enters the persisted index only by a Set of that key
\* that returns nil, never by an entry written otherwise.
C29_ListDoesNotReconcile ==
    /\ [](\A p \in Providers :
            /\ (last.op = "ExternalDelete" /\ ~closed[p])
               => /\ Contains(PersistedIndex(p), last.path)
                     <=> Contains(ListNow(p), last.path)
                  /\ ~DoExists(cfg[p], FALSE, store, last.path, NoFail).found
                  /\ ErrorsIs(DoGet(cfg[p], FALSE, store, last.path, NoFail).err,
                              "ErrSecretNotFound")
            /\ (last.op = "ExternalWrite" /\ ~closed[p])
               => /\ Contains(PersistedIndex(p), last.path)
                     <=> Contains(ListNow(p), last.path)
                  /\ DoExists(cfg[p], FALSE, store, last.path, NoFail).found
            /\ (last.op = "List" /\ last.prov = p /\ ~closed[p]
                /\ last.path = <<>>)
               => last.list = PersistedIndex(p))
    /\ [][\A p \in Providers, key \in OrdinaryPaths :
            (Contains(IndexIn(store', p), key) /\ ~Contains(IndexIn(store, p), key))
            => (last'.op = "Set" /\ last'.path = key /\ last'.err = NoErr)]_vars

\* another process has removed the entry of an indexed path: List("") still
\* returns the path, Exists is false
C29_Witness ==
    \E p \in Providers :
        /\ last.op = "ExternalDelete" /\ ~closed[p]
        /\ Contains(ListNow(p), last.path)
        /\ ~DoExists(cfg[p], FALSE, store, last.path, NoFail).found
        /\ \E path \in OrdinaryPaths :
              /\ store[cfg[p].ServiceName][path] # NotFound
              /\ ~Contains(ListNow(p), path)

\* C30: when two Sets of different ordinary paths, made concurrently on
\* two Providers of one service, have both returned nil, the index of the
\* service holds both paths.
C30_SharedIndexAtomic ==
    \A t, u \in Threads :
        (/\ th[t].op = "Set" /\ th[u].op = "Set"
         /\ th[t].prov # th[u].prov
         /\ cfg[th[t].prov].ServiceName = cfg[th[u].prov].ServiceName
         /\ th[t].path # th[u].path
         /\ th[t].pc = "done" /\ th[u].pc = "done"
         /\ th[t].err = NoErr /\ th[u].err = NoErr)
        => /\ Contains(PersistedIndex(th[t].prov), th[t].path)
           /\ Contains(PersistedIndex(th[t].prov), th[u].path)

\* the keys a sequence holds
Range(seq) == {seq[i] : i \in 1..Len(seq)}

\* C31: with one Provider on its service, no native call failing, no other
\* writer of the store and ordinary paths only, after every operation the
\* keys of the persisted index are the ordinary paths that have an entry in
\* the store, and on an open Provider the elements of List("") are the
\* paths for which Exists returns true.
C31_IndexMatchesStore ==
    \A p \in Providers :
        /\ Range(PersistedIndex(p))
           = {path \in OrdinaryPaths : store[cfg[p].ServiceName][path] # NotFound}
        /\ ~closed[p]
           => (Range(DoList(cfg[p], closed[p], store, <<>>, NoFail).list)
               = {path \in CallerPaths :
                     DoExists(cfg[p], closed[p], store, path, NoFail).found}
                 \ {indexKey})

\* after a Delete one of the two ordinary paths has an entry and the index
\* holds that path only
C31_Witness ==
    /\ last.op = "Delete" /\ last.err = NoErr /\ Len(last.calls) = 3
    /\ \E path \in OrdinaryPaths :
          /\ path # last.path
          /\ store[cfg[last.prov].ServiceName][path] # NotFound
          /\ PersistedIndex(last.prov) = <<path>>

\* goroutine t holds the lock of Provider p, exclusive or shared
Holds(t, p) == mu[p].writer = t \/ t \in mu[p].readers

\* goroutine t is in a call that has not returned
InCall(t) == th[t].pc \notin {"idle", "done"}

\* C32: with concurrent callers of the six operations on one Provider
\* whose native calls return, failing or not, and whose callback returns
\* without calling a Provider: a goroutine blocked on the lock holds no
\* lock (no operation takes the lock it holds), a goroutine holds the lock
\* of its Provider from taking it to its return and no lock once it has
\* returned, in every state with a call that has not returned some call
\* can take a step (no deadlock), and every call that has reached the lock
\* returns.
C32_EveryCallReturns ==
    /\ [](\A t \in Threads :
            /\ (th[t].pc \in {"idle", "lock", "done"})
               => (\A p \in Providers : ~Holds(t, p))
            /\ (th[t].pc \in {"body", "load", "save", "unlock"})
               => Holds(t, th[t].prov))
    /\ []((\E t \in Threads : InCall(t))
          => ENABLED (\E t \in Threads : ThreadStep(t)))
    /\ \A t \in Threads : (th[t].pc = "lock") ~> (th[t].pc = "done")

\* a Set and a Close have both returned, the Set with nil, and nobody holds
\* the lock of the closed Provider
C32_Witness ==
    \E t, u \in Threads :
        /\ th[t].op = "Set" /\ th[t].pc = "done" /\ th[t].err = NoErr
        /\ th[u].op = "Close" /\ th[u].pc = "done"
        /\ closed[th[u].prov]
        /\ mu[th[u].prov] = Unlocked

\* goroutine t is in the OnIndexError callback of its operation
InCallback(t) == th[t].pc \in {"cb_lock", "cb_body", "cb_unlock"}

\* C33: while the OnIndexError callback of an operation runs, the
\* goroutine of the operation holds the lock of its Provider, exclusive
\* when the operation is a Set or a Delete and shared when it is a List;
\* a callback that calls Close on that same Provider (Set and Delete take
\* the same exclusive lock first) stays blocked on the lock in every step
\* that follows, so that the enclosing operation does not return and does
\* not release the lock.
C33_CallbackUnderLock ==
    /\ [](\A t \in Threads :
            InCallback(t)
            => /\ th[t].op \in WriteOps \cup {"List"}
               /\ (th[t].op \in WriteOps) => (mu[th[t].prov].writer = t)
               /\ (th[t].op = "List") => (t \in mu[th[t].prov].readers))
    /\ [][\A t \in Threads :
            (th[t].pc = "cb_lock" /\ Closes(cfg[th[t].prov]) = th[t].prov)
            => /\ th'[t] = th[t]
               /\ Holds(t, th[t].prov)']_vars

\* the callback of a Set is blocked in Close on the Provider of the Set,
\* which the Set holds exclusively, and a List of that Provider waits for
\* the lock
C33_Witness ==
    \E t, u \in Threads :
        /\ th[t].op = "Set" /\ th[t].pc = "cb_lock"
        /\ Closes(cfg[th[t].prov]) = th[t].prov
        /\ mu[th[t].prov].writer = t
        /\ th[u].op = "List" /\ th[u].prov = th[t].prov /\ th[u].pc = "lock"

====
